---- MODULE Spec2Model ----
(***************************************************************************)
(* NeighborLoop backend (session-2/app.py): the Flask request handlers      *)
(* home, get_items, list_item, search and handle_swipe over the items and   *)
(* swipes tables, the object store and the generative model.                *)
(*                                                                          *)
(* The server runs threaded (app.run(..., threaded=True)), so the handlers  *)
(* of several workers interleave.  Every handler opens its own connection:  *)
(* its writes become visible to the others at COMMIT, every statement reads *)
(* the committed tables (create_engine is called without an isolation       *)
(* level, so the database's default, READ COMMITTED, applies), and an       *)
(* UPDATE holds the lock of the row it changed until its transaction ends.  *)
(* Steps that touch nothing another handler can see are taken together with *)
(* the step before them: the validation and the INSERT INTO swipes of       *)
(* handle_swipe form one step, and so do the handlers that run one query.   *)
(*                                                                          *)
(* The columns title, bio, category and item_vector are written once by     *)
(* list_item and steer no handler; the rows do not carry them.              *)
(***************************************************************************)
EXTENDS Integers, FiniteSets, Sequences, TLC

\* ---------------------------------------------------------------- bounds
MaxStored == 3       \* objects in the bucket plus rows of swipes

\* ------------------------------------------------------ program constants
FeedLimit   == 20    \* LIMIT 20 of the feed query
SearchLimit == 5     \* LIMIT 5 of the search query

Workers == {1, 2}

VARIABLES
    engine,      \* "ok" | "None": the module-level SQLAlchemy engine
    items,       \* committed rows of table items
    swipes,      \* committed rows of table swipes
    blobs,       \* keys of the objects stored in the bucket
    pc,          \* pc[w]: where worker w stands in its handler
    req,         \* req[w]: the request worker w is serving
    loc,         \* loc[w]: the handler's locals and its open transaction
    out          \* the exchange just completed, request and response, until
                 \* the response has left the server

vars == <<engine, items, swipes, blobs, pc, req, loc, out>>

\* ---------------------------------------------------------- Python values
PyNone    == [t |-> "None"]
PyInt(i)  == [t |-> "int", i |-> i]
PyStr(s)  == [t |-> "str", s |-> s]

\* bool(v): None, 0 and "" are falsy
Truthy(v) ==
    CASE v.t = "None" -> FALSE
      [] v.t = "int"  -> v.i # 0
      [] v.t = "str"  -> v.s # ""
      [] OTHER        -> TRUE

\* str(item_id)
Str(i) == ToString(i)

\* request.form.get(key, default)
FormGet(v, default) == IF v.t = "None" THEN default ELSE v.s

\* the integer the database compares with column item_id when the bound
\* parameter is v
ParamId(v) ==
    IF v.t = "None" THEN -1
    ELSE IF v.t = "int" THEN v.i
    ELSE IF \E i \in 0..(MaxStored + 1) : Str(i) = v.s
         THEN CHOOSE i \in 0..(MaxStored + 1) : Str(i) = v.s
         ELSE -1

\* a value no element of used equals: uuid.uuid4(), and the item_id the
\* database generates
Fresh(used) == CHOOSE n \in 1..(Cardinality(used) + 1) : n \notin used

\* ------------------------------------------------------------- responses
NoReq  == [ep |-> "none"]
NoLoc  == [swiper_id |-> 0, is_match |-> FALSE, res |-> PyNone,
           pend_swipe |-> {}, upd |-> {}, pend_item |-> {},
           ai |-> "none", image_url |-> 0]

NoExchange == [req |-> NoReq, resp |-> [code |-> 0]]

EngineDown == [code |-> 500, error |-> "Database engine not initialized."]
Err(c, msg) == [code |-> c, error |-> msg]

\* ---------------------------------------------------------------- queries
RowsOf(rows, id) == {r \in rows : r.item_id = id}

StatusOf(rows, id) ==
    IF RowsOf(rows, id) = {} THEN "absent"
    ELSE (CHOOSE r \in RowsOf(rows, id) : TRUE).status

\* ORDER BY created_at DESC: the ids of rs, newest first
RECURSIVE NewestFirst(_)
NewestFirst(rs) ==
    IF rs = {} THEN <<>>
    ELSE LET r == CHOOSE x \in rs : \A y \in rs : y.created_at <= x.created_at
         IN  <<Str(r.item_id)>> \o NewestFirst(rs \ {r})

Take(s, n) == IF Len(s) <= n THEN s ELSE SubSeq(s, 1, n)

\* SELECT ... FROM items WHERE status = 'available'
\*   ORDER BY created_at DESC LIMIT 20
FeedQueryAnyStatus(rows) == Take(NewestFirst(rows), FeedLimit)
FeedQuery(rows) ==
    Take(NewestFirst({r \in rows : r.status = "available"}), FeedLimit)

\* the rows the WHERE clause of search admits before the ai.if predicate
SearchCandidatesAnyStatus(rows) == rows
SearchCandidates(rows) == {r \in rows : r.status = "available"}

\* UPDATE items SET status = 'matched' WHERE item_id = :id
UpdateStatusToggle(rows, ids) ==
    {IF r.item_id \in ids
     THEN [r EXCEPT !.status = IF r.status = "matched" THEN "available" ELSE "matched"]
     ELSE r : r \in rows}
UpdateStatus(rows, ids) ==
    {IF r.item_id \in ids THEN [r EXCEPT !.status = "matched"] ELSE r : r \in rows}

\* ------------------------------------------------------------------ inputs
Directions == {PyNone, PyStr("left"), PyStr("right"), PyStr("up")}
\* no item_id, a falsy one, the id of a stored item, or an id not stored
ItemIds == {r.item_id : r \in items}
ItemIdArgs == {PyNone, PyInt(0)} \cup
              {PyStr(Str(i)) : i \in ItemIds \cup {Fresh(ItemIds)}}
\* the JSON object of a swipe; a key left out reads as None (data.get)
SwipeBodies == {[direction |-> d, item_id |-> i] : d \in Directions, i \in ItemIdArgs}
\* the form of a listing: both contact fields given, or both left out
Forms == {[provider_name |-> PyStr("Ann"), provider_phone |-> PyStr("555")],
          [provider_name |-> PyNone, provider_phone |-> PyNone]}
QueryArgs == {PyNone, PyStr(""), PyStr("lamp")}

\* the rows and keys of open handlers, which count towards the bounds
InFlight(ps) == Cardinality({w \in Workers : pc[w] \in ps})
Room ==
    Cardinality(blobs) + Cardinality(swipes)
        + InFlight({"li_upload", "sw_select", "sw_update", "sw_commit"}) < MaxStored

\* ------------------------------------------------------------------- Init
Init ==
    /\ engine \in {"ok", "None"}
    /\ items = {}
    /\ swipes = {}
    /\ blobs = {}
    /\ pc = [w \in Workers |-> "idle"]
    /\ req = [w \in Workers |-> NoReq]
    /\ loc = [w \in Workers |-> NoLoc]
    /\ out = NoExchange

\* the handler of worker w, serving request r, returns response x; handlers
\* step only while no response is waiting to leave
Reply(w, r, x) ==
    /\ out = NoExchange
    /\ pc' = [pc EXCEPT ![w] = "idle"]
    /\ req' = [req EXCEPT ![w] = NoReq]
    /\ loc' = [loc EXCEPT ![w] = NoLoc]
    /\ out' = [req |-> r, resp |-> x]

\* the handler of worker w, serving request r, goes on to position p with
\* locals l
Goto(w, r, p, l) ==
    /\ out = NoExchange
    /\ pc' = [pc EXCEPT ![w] = p]
    /\ req' = [req EXCEPT ![w] = r]
    /\ loc' = [loc EXCEPT ![w] = l]
    /\ UNCHANGED out

\* ------------------------------------------------------------ handle_swipe
\* a swipe request with JSON body b; pre is the status the named item has
\* when the request arrives
SwipeReq(b) ==
    [ep |-> "swipe", body |-> b,
     pre |-> IF b.item_id.t # "None"
             THEN StatusOf(items, ParamId(b.item_id)) ELSE "absent"]

\* not item_id or direction not in ['left', 'right']
InvalidSwipeDirectionOnly(direction, item_id) ==
    direction \notin {PyStr("left"), PyStr("right")}
InvalidSwipe(direction, item_id) ==
    ~Truthy(item_id) \/ direction \notin {PyStr("left"), PyStr("right")}

\* is_match = (direction == 'right')
IsMatchAnyDirection(direction) == direction # PyNone
IsMatch(direction) == direction = PyStr("right")

\* the row INSERT INTO swipes (swiper_id, item_id, direction, is_match) adds
SwipeRowAlwaysMatch(swiper, body, match) ==
    [swiper_id |-> swiper, item_id |-> ParamId(body.item_id),
     direction |-> body.direction.s, is_match |-> TRUE]
SwipeRow(swiper, body, match) ==
    [swiper_id |-> swiper, item_id |-> ParamId(body.item_id),
     direction |-> body.direction.s, is_match |-> match]

SwiperIds == {s.swiper_id : s \in swipes} \cup {loc[w].swiper_id : w \in Workers}

\* lines 284-310: engine check, request.json, uuid4, validation, and the
\* INSERT INTO swipes inside the transaction just opened
handle_swipe(w) ==
    /\ pc[w] = "idle"
    /\ \E b \in SwipeBodies :
        LET r == SwipeReq(b) IN
        IF engine = "None" THEN Reply(w, r, EngineDown)
        ELSE IF InvalidSwipe(b.direction, b.item_id)
        THEN Reply(w, r, Err(400, "Invalid swipe data"))
        ELSE LET m  == IsMatch(b.direction)
                 id == Fresh(SwiperIds)
             IN  /\ Room
                 /\ Goto(w, r, IF m THEN "sw_select" ELSE "sw_commit",
                         [NoLoc EXCEPT !.swiper_id = id, !.is_match = m,
                                       !.pend_swipe = {SwipeRow(id, b, m)}])
    /\ UNCHANGED <<engine, items, swipes, blobs>>

\* SELECT provider_name, provider_phone FROM items WHERE item_id = :id
\*   ... .fetchone()
ProviderInfoAnyRow(rows, id) ==
    IF RowsOf(rows, id) = {} THEN PyNone
    ELSE LET r == CHOOSE x \in rows : \A y \in rows : x.item_id <= y.item_id
         IN  [t |-> "row", name |-> r.provider_name, phone |-> r.provider_phone]
ProviderInfo(rows, id) ==
    IF RowsOf(rows, id) = {} THEN PyNone
    ELSE LET r == CHOOSE x \in RowsOf(rows, id) : TRUE
         IN  [t |-> "row", name |-> r.provider_name, phone |-> r.provider_phone]

\* lines 315-316
handle_swipe_select(w) ==
    /\ pc[w] = "sw_select"
    /\ Goto(w, req[w], "sw_update",
            [loc[w] EXCEPT !.res = ProviderInfo(items, ParamId(req[w].body.item_id))])
    /\ UNCHANGED <<engine, items, swipes, blobs>>

\* the row lock another open transaction holds on item id
LockedByOtherOpen(w, id) ==
    \E v \in Workers \ {w} :
        pc[v] \in {"sw_update", "sw_commit"} /\ ParamId(req[v].body.item_id) = id
LockedByOther(w, id) == \E v \in Workers \ {w} : id \in loc[v].upd

\* lines 319-320: the UPDATE waits while another transaction holds the row
handle_swipe_update(w) ==
    LET id == ParamId(req[w].body.item_id) IN
    /\ pc[w] = "sw_update"
    /\ ~LockedByOther(w, id)
    /\ Goto(w, req[w], "sw_commit",
            [loc[w] EXCEPT !.upd = IF RowsOf(items, id) = {} THEN {} ELSE {id}])
    /\ UNCHANGED <<engine, items, swipes, blobs>>

\* the response of lines 325-330
MatchReply(l) ==
    [code |-> 200, is_match |-> TRUE, provider_name |-> l.res.name,
     provider_phone |-> l.res.phone, swiper_id |-> Str(l.swiper_id)]

\* the response of lines 333-335
NoMatchReply(l) ==
    [code |-> 200, is_match |-> FALSE, swiper_id |-> Str(l.swiper_id)]

\* lines 322-335: conn.commit() and the response
handle_swipe_commit(w) ==
    /\ pc[w] = "sw_commit"
    /\ swipes' = swipes \cup loc[w].pend_swipe
    /\ items' = UpdateStatus(items, loc[w].upd)
    /\ IF loc[w].is_match
       THEN IF Truthy(loc[w].res)
            THEN Reply(w, req[w], MatchReply(loc[w]))
            ELSE Goto(w, req[w], "sw_commit2",
                      [loc[w] EXCEPT !.pend_swipe = {}, !.upd = {}])
       ELSE Reply(w, req[w], NoMatchReply(loc[w]))
    /\ UNCHANGED <<engine, blobs>>

\* lines 332-335 after the commit of line 322, when res is None
handle_swipe_commit2(w) ==
    /\ pc[w] = "sw_commit2"
    /\ Reply(w, req[w], NoMatchReply(loc[w]))
    /\ UNCHANGED <<engine, items, swipes, blobs>>

\* lines 337-343: a statement or a commit raises; leaving the with block
\* closes the connection, which rolls the open transaction back
handle_swipe_error(w) ==
    /\ pc[w] \in {"sw_select", "sw_update", "sw_commit", "sw_commit2"}
    /\ Reply(w, req[w], Err(500, "Database error during swipe"))
    /\ UNCHANGED <<engine, items, swipes, blobs>>

\* --------------------------------------------------------------- list_item
ListReq(img, f) ==
    [ep |-> "list", has_image |-> img,
     provider_name |-> f.provider_name, provider_phone |-> f.provider_phone]

\* 'image' not in request.files
NoImageFromForm(r) == FALSE
NoImage(r) == ~r.has_image

\* lines 151-161: engine check, image check, form fields
list_item(w) ==
    /\ pc[w] = "idle"
    /\ \E img \in BOOLEAN, f \in Forms :
        LET r == ListReq(img, f) IN
        IF engine = "None" THEN Reply(w, r, EngineDown)
        ELSE IF NoImage(r) THEN Reply(w, r, Err(400, "No image provided"))
        ELSE Room /\ Goto(w, r, "li_upload", NoLoc)
    /\ UNCHANGED <<engine, items, swipes, blobs>>

\* lines 163-166 and upload_to_gcs: the blob is named by a fresh uuid
list_item_upload(w) ==
    LET key == Fresh(blobs) IN
    /\ pc[w] = "li_upload"
    /\ blobs' = blobs \cup {key}
    /\ Goto(w, req[w], "li_ai", [loc[w] EXCEPT !.image_url = key])
    /\ UNCHANGED <<engine, items, swipes>>

\* lines 165-166: upload_to_gcs raises
list_item_upload_error(w) ==
    /\ pc[w] = "li_upload"
    /\ Reply(w, req[w], Err(500, "GCS Upload Failed"))
    /\ UNCHANGED <<engine, items, swipes, blobs>>

AiOutcomes == {"ok", "provider_error", "parse_error", "not_object"}
AiFailures == AiOutcomes \ {"ok"}

\* whether the try block reaches the INSERT after the model answered out: a
\* provider error, unparseable text, or JSON that is no object (profile.get
\* raises) all end in the except branch
AiProceedsAlways(o) == TRUE
AiProceeds(o) == o = "ok"

\* lines 178-187: generate_content, json.loads, profile.get
Generate(w, o) ==
    /\ IF AiProceeds(o)
       THEN Goto(w, req[w], "li_insert",
                 [loc[w] EXCEPT !.ai = o])
       ELSE Reply(w, req[w], Err(500, "Operation Failed"))
    /\ UNCHANGED <<engine, items, swipes, blobs>>

\* the model answers with a JSON object
list_item_generate(w) ==
    /\ pc[w] = "li_ai"
    /\ Generate(w, "ok")

\* the provider raises, or its text is no JSON, or no JSON object
list_item_generate_error(w) ==
    /\ pc[w] = "li_ai"
    /\ \E o \in AiFailures : Generate(w, o)

\* the row INSERT INTO items (...) VALUES (..., 'available', ...) adds
ItemRow(id, owner, r, url, at) ==
    [item_id |-> id, owner_id |-> owner,
     provider_name |-> FormGet(r.provider_name, "Anonymous"),
     provider_phone |-> FormGet(r.provider_phone, "No Phone"),
     image_url |-> url, status |-> "available", created_at |-> at]

Pending == UNION {loc[w].pend_item : w \in Workers}

\* owner_id = str(uuid.uuid4())
OwnerIds == {r.owner_id : r \in items \cup Pending}

\* the item_id and created_at defaults of a new row
NextItemIdCommitted == Fresh({r.item_id : r \in items})
NextItemId == Fresh({r.item_id : r \in items \cup Pending})
Now == Cardinality(items \cup Pending) + 1

\* lines 189-207: uuid4 for the owner, INSERT ... RETURNING item_id
list_item_insert(w) ==
    /\ pc[w] = "li_insert"
    /\ Goto(w, req[w], "li_commit",
            [loc[w] EXCEPT !.pend_item =
                {ItemRow(NextItemId, Fresh(OwnerIds), req[w], loc[w].image_url, Now)}])
    /\ UNCHANGED <<engine, items, swipes, blobs>>

\* the item_id of the success response: str(result.fetchone()[0])
ReturnedId(l) == Str((CHOOSE r \in l.pend_item : TRUE).item_id)

\* lines 208-215: conn.commit() and the success response
list_item_commit(w) ==
    /\ pc[w] = "li_commit"
    /\ items' = items \cup loc[w].pend_item
    /\ Reply(w, req[w], [code |-> 200, status |-> "success",
                         item_id |-> ReturnedId(loc[w]),
                         image_url |-> loc[w].image_url])
    /\ UNCHANGED <<engine, swipes, blobs>>

\* lines 217-223: the INSERT or the commit raises
list_item_error(w) ==
    /\ pc[w] \in {"li_insert", "li_commit"}
    /\ Reply(w, req[w], Err(500, "Operation Failed"))
    /\ UNCHANGED <<engine, items, swipes, blobs>>

\* ------------------------------------------------------ home and get_items
\* engine check, the feed query and its rows
Feed(w, r) ==
    Reply(w, r, IF engine = "None" THEN EngineDown
                ELSE [code |-> 200, items |-> FeedQuery(items)])

\* lines 64-95
home(w) ==
    /\ pc[w] = "idle"
    /\ Feed(w, [ep |-> "home"])
    /\ UNCHANGED <<engine, items, swipes, blobs>>

\* lines 105-136
get_items(w) ==
    /\ pc[w] = "idle"
    /\ Feed(w, [ep |-> "items"])
    /\ UNCHANGED <<engine, items, swipes, blobs>>

\* lines 97-103 and 138-144: the query raises
feed_error(w) ==
    /\ pc[w] = "idle"
    /\ engine # "None"
    /\ \E e \in {"home", "items"} :
          Reply(w, [ep |-> e], Err(500, "Failed to fetch items"))
    /\ UNCHANGED <<engine, items, swipes, blobs>>

\* ------------------------------------------------------------------ search
\* the rows the query returns: the ai.if predicate and the distance ranking
\* are the database's, so any admitted rows, at most LIMIT 5 of them
SearchResults(rows) ==
    {h \in SUBSET SearchCandidates(rows) : Cardinality(h) <= SearchLimit}

\* lines 226-272
search(w) ==
    /\ pc[w] = "idle"
    /\ \E q \in QueryArgs :
        LET r == [ep |-> "search", query |-> q] IN
        IF engine = "None" THEN Reply(w, r, EngineDown)
        ELSE IF ~Truthy(q) THEN Reply(w, r, [code |-> 200, hits |-> {}])
        ELSE \E h \in SearchResults(items) :
                Reply(w, r, [code |-> 200, hits |-> {Str(x.item_id) : x \in h}])
    /\ UNCHANGED <<engine, items, swipes, blobs>>

\* lines 273-275: the query raises
search_error(w) ==
    /\ pc[w] = "idle"
    /\ engine # "None"
    /\ \E q \in {x \in QueryArgs : Truthy(x)} :
          Reply(w, [ep |-> "search", query |-> q], Err(500, "str(e)"))
    /\ UNCHANGED <<engine, items, swipes, blobs>>

\* the response written last leaves the server
Deliver ==
    /\ out # NoExchange
    /\ out' = NoExchange
    /\ UNCHANGED <<engine, items, swipes, blobs, pc, req, loc>>

\* the steps of the handlers when no dependency fails
Serve(w) ==
    \/ handle_swipe(w)
    \/ handle_swipe_select(w)
    \/ handle_swipe_update(w)
    \/ handle_swipe_commit(w)
    \/ handle_swipe_commit2(w)
    \/ list_item(w)
    \/ list_item_upload(w)
    \/ list_item_generate(w)
    \/ list_item_insert(w)
    \/ list_item_commit(w)
    \/ home(w)
    \/ get_items(w)
    \/ search(w)

\* a dependency fails: the bucket, the model, or a database statement
Fail(w) ==
    \/ handle_swipe_error(w)
    \/ list_item_upload_error(w)
    \/ list_item_generate_error(w)
    \/ list_item_error(w)
    \/ feed_error(w)
    \/ search_error(w)

NextNoFault == Deliver \/ \E w \in Workers : Serve(w)

Next == Deliver \/ \E w \in Workers : Serve(w) \/ Fail(w)

\* every behaviour of the server
Spec == Init /\ [][Next]_vars

\* the behaviours in which the bucket, the model and the database never fail
SpecNoFault == Init /\ [][NextNoFault]_vars

\* ================================================================ claims
\* a step in which a handler answers: the exchange is in out'
Replied == out = NoExchange /\ out' # NoExchange
\* a handler answers in the step that received the request
AnsweredAtOnce == Replied /\ pc' = pc

RightSwipe(r) == r.ep = "swipe" /\ r.body.direction = PyStr("right")
LeftSwipe(r) == r.ep = "swipe" /\ r.body.direction = PyStr("left")
ReqId(r) == ParamId(r.body.item_id)
IdOf(s) == ParamId(PyStr(s))
TheRow(rows, id) == CHOOSE r \in RowsOf(rows, id) : TRUE
Range(f) == {f[i] : i \in DOMAIN f}
RightRows(rows, id) == {s \in rows : s.item_id = id /\ s.direction = "right"}

\* ---- C1
\* C1: every item a feed endpoint (GET /, GET /api/items) or the search
\* returns has status available in the table the query ran on; a matched
\* item is never returned.  (While out holds the exchange the tables are the
\* ones the query read.)
C1_ReturnedItemsAvailable ==
    (out.resp.code = 200 /\ out.req.ep \in {"home", "items", "search"}) =>
        LET ids == IF out.req.ep = "search" THEN out.resp.hits
                   ELSE Range(out.resp.items)
        IN  \A s \in ids : StatusOf(items, IdOf(s)) = "available"

\* a feed returned an item while another item is matched and left out
C1_Witness ==
    /\ out.req.ep \in {"home", "items"}
    /\ out.resp.code = 200
    /\ Len(out.resp.items) > 0
    /\ \E r \in items : r.status = "matched" /\ Str(r.item_id) \notin Range(out.resp.items)

\* ---- C2
\* C2: when no dependency fails, a right swipe on an item that exists with
\* status available when the request arrives sets the item's status to
\* matched and returns is_match = true with the provider_name and
\* provider_phone stored for that item; a matched item stays matched and no
\* feed fetch returns a matched item, so every feed fetch that runs after
\* the swipe has committed leaves the item out.
C2_Step ==
    /\ (Replied /\ RightSwipe(out'.req) /\ out'.req.pre = "available") =>
            LET id == ReqId(out'.req) IN
            /\ out'.resp.code = 200
            /\ out'.resp.is_match
            /\ out'.resp.provider_name = TheRow(items, id).provider_name
            /\ out'.resp.provider_phone = TheRow(items, id).provider_phone
            /\ StatusOf(items', id) = "matched"
    /\ \A r \in items : r.status = "matched" => StatusOf(items', r.item_id) = "matched"
    /\ (Replied /\ out'.req.ep \in {"home", "items"} /\ out'.resp.code = 200) =>
            \A r \in items : r.status = "matched" =>
                Str(r.item_id) \notin Range(out'.resp.items)
C2_RightSwipeMatches == [][C2_Step]_vars

\* a right swipe on an available item listed with its own contact data was
\* answered with that data while an item listed without any is stored too
C2_Witness ==
    /\ RightSwipe(out.req) /\ out.req.pre = "available"
    /\ out.resp.code = 200 /\ out.resp.is_match
    /\ out.resp.provider_name = "Ann" /\ out.resp.provider_phone = "555"
    /\ StatusOf(items, ReqId(out.req)) = "matched"
    /\ \E r \in items : r.provider_name = "Anonymous" /\ r.item_id < ReqId(out.req)

\* ---- C3
BadDirection(r) == r.body.direction \notin {PyStr("left"), PyStr("right")}
NoItemId(r) == r.body.item_id = PyNone

C3_Step ==
    (Replied /\ out'.req.ep = "swipe"
       /\ (BadDirection(out'.req) \/ NoItemId(out'.req))) =>
        /\ out'.resp.code = IF engine = "None" THEN 500 ELSE 400
        /\ AnsweredAtOnce
        /\ swipes' = swipes
        /\ items' = items
C4_Step ==
    (Replied /\ out'.req.ep = "list" /\ ~out'.req.has_image) =>
        /\ out'.resp.code = IF engine = "None" THEN 500 ELSE 400
        /\ AnsweredAtOnce
        /\ blobs' = blobs
        /\ items' = items
C5_Step ==
    (Replied /\ out'.req.ep = "list" /\ out'.resp.code = 200) =>
        \E r \in items' :
            /\ r \notin items
            /\ items' = items \cup {r}
            /\ r.status = "available"
            /\ out'.resp.item_id = Str(r.item_id)
            /\ \A x \in items : x.item_id # r.item_id
C5_SuccessAddsOneRow == [][C5_Step]_vars

\* a second listing succeeded
C5_Witness ==
    /\ out.req.ep = "list" /\ out.resp.code = 200
    /\ Cardinality(items) = 2

\* ---- C6
\* C6: the steps of list-item are hard dependencies.  A failed upload is
\* answered 500 with no model call (the handler ends there) and no change of
\* bucket or table; a failed model call or unusable answer is answered 500
\* with no row inserted and the blob left in the bucket; a row enters items
\* only from a handler whose upload stored the row's blob and whose model
\* call succeeded; no blob is ever removed.
C6_Step ==
    /\ \A w \in Workers :
        /\ (pc[w] = "li_upload" /\ pc'[w] # "li_upload") =>
              \/ /\ pc'[w] = "li_ai"
                 /\ loc'[w].image_url \in blobs' \ blobs
                 /\ out' = out
              \/ /\ pc'[w] = "idle"
                 /\ out'.resp = Err(500, "GCS Upload Failed")
                 /\ blobs' = blobs /\ items' = items
        /\ (pc[w] = "li_ai" /\ pc'[w] # "li_ai") =>
              \/ /\ pc'[w] = "li_insert"
                 /\ loc'[w].ai = "ok"
                 /\ items' = items
              \/ /\ pc'[w] = "idle"
                 /\ out'.resp = Err(500, "Operation Failed")
                 /\ blobs' = blobs /\ items' = items
    /\ \A r \in items' :
        RowsOf(items, r.item_id) = {} =>
        \E w \in Workers :
            /\ pc[w] = "li_commit"
            /\ loc[w].ai = "ok"
            /\ r.image_url = loc[w].image_url
            /\ r.image_url \in blobs
    /\ (Replied /\ out'.req.ep = "list" /\ out'.resp.code = 500) => items' = items
    /\ blobs \subseteq blobs'
C6_HardDependencies == [][C6_Step]_vars

\* the model call failed after the upload: 500, and the blob stays orphaned
C6_Witness ==
    /\ out.req.ep = "list"
    /\ out.resp = Err(500, "Operation Failed")
    /\ \E b \in blobs : \A r \in items : r.image_url # b

\* ---- C7
\* C7 as stated: a left swipe is answered is_match = false (a 500 of a
\* failed dependency aside).
C7_Original ==
    (LeftSwipe(out.req) /\ out.resp.code # 500) =>
        (out.resp.code = 200 /\ ~out.resp.is_match)

\* the step is one of a left swipe's handler
LeftStep ==
    \/ \E w \in Workers : pc'[w] # pc[w] /\ (LeftSwipe(req[w]) \/ LeftSwipe(req'[w]))
    \/ Replied /\ LeftSwipe(out'.req)

\* C7, amended: no step of a left swipe changes the items table; a left
\* swipe whose item_id is present and truthy is answered is_match = false
\* unless a dependency fails (500), and one whose item_id is missing or
\* falsy is answered 400 (500 when the engine is None).
C7_Step ==
    /\ LeftStep => items' = items
    /\ (Replied /\ LeftSwipe(out'.req)) =>
          IF out'.resp.code = 500 THEN TRUE
          ELSE IF Truthy(out'.req.body.item_id)
          THEN out'.resp.code = 200 /\ ~out'.resp.is_match
          ELSE out'.resp.code = 400
C7_LeftSwipeKeepsItems == [][C7_Step]_vars

\* a left swipe on an available item was recorded and answered no match
C7_Witness ==
    /\ LeftSwipe(out.req) /\ out.req.pre = "available"
    /\ out.resp.code = 200 /\ ~out.resp.is_match
    /\ \E s \in swipes : Str(s.swiper_id) = out.resp.swiper_id /\ s.direction = "left"
    /\ StatusOf(items, ReqId(out.req)) = "available"

\* ---- C8
\* C8: when no dependency fails, a right swipe on an item that exists when
\* it arrives, available or already matched, is answered without an error,
\* with is_match = true, and the item is matched afterwards: after the first
\* swipe and still after the second; and whatever the step, no row of items
\* is removed and no matched item becomes available again.
C8_Step ==
    /\ (Replied /\ RightSwipe(out'.req) /\ out'.req.pre \in {"available", "matched"}) =>
          /\ out'.resp.code = 200
          /\ out'.resp.is_match
          /\ StatusOf(items', ReqId(out'.req)) = "matched"
    /\ \A r \in items :
          /\ RowsOf(items', r.item_id) # {}
          /\ r.status = "matched" => StatusOf(items', r.item_id) = "matched"
C8_RightSwipeIdempotent == [][C8_Step]_vars

\* the second right swipe on an item was answered with a match
C8_Witness ==
    /\ RightSwipe(out.req) /\ out.req.pre = "matched"
    /\ out.resp.code = 200 /\ out.resp.is_match
    /\ StatusOf(items, ReqId(out.req)) = "matched"
    /\ Cardinality(RightRows(swipes, ReqId(out.req))) = 2

\* ---- C9
\* worker w has open a right swipe on item id that was available when the
\* request arrived
RightOn(w, id) ==
    /\ pc[w] \in {"sw_select", "sw_update", "sw_commit"}
    /\ RightSwipe(req[w]) /\ ReqId(req[w]) = id
    /\ req[w].pre = "available"
\* w answers such a swipe while another one on the same item is open, or
\* after another one matched the item in the meantime
Raced(w) ==
    /\ RightOn(w, ReqId(req[w]))
    /\ pc'[w] = "idle"
    /\ \/ \E v \in Workers \ {w} : RightOn(v, ReqId(req[w]))
       \/ StatusOf(items, ReqId(req[w])) = "matched"

\* once the last reply is delivered, an open swipe can take its next step,
\* or waits for a row lock whose holder can commit
C9_NoConflict ==
    out = NoExchange =>
    \A w \in Workers :
        /\ pc[w] = "sw_select" => ENABLED handle_swipe_select(w)
        /\ pc[w] = "sw_commit" => ENABLED handle_swipe_commit(w)
        /\ pc[w] = "sw_update" =>
              \/ ENABLED handle_swipe_update(w)
              \/ \E v \in Workers \ {w} :
                    /\ pc[v] = "sw_commit"
                    /\ ParamId(req[w].body.item_id) \in loc[v].upd

C9_Step ==
    \A w \in Workers :
        Raced(w) =>
            LET id == ReqId(req[w]) IN
            /\ out'.resp.code = 200
            /\ out'.resp.is_match
            /\ out'.resp.provider_name = TheRow(items, id).provider_name
            /\ out'.resp.provider_phone = TheRow(items, id).provider_phone
            /\ \E s \in swipes' \ swipes :
                  /\ swipes' = swipes \cup {s}
                  /\ Str(s.swiper_id) = out'.resp.swiper_id
                  /\ s.item_id = id /\ s.direction = "right"
            /\ StatusOf(items', id) = "matched"
            /\ StatusOf(items, id) = "matched" =>
                  Cardinality(RightRows(swipes', id)) >= 2

\* C9: when no dependency fails, under any interleaving of two concurrent
\* right swipes on the same available item neither meets a conflict (each
\* can always step, or waits for a row lock whose holder can commit), both
\* are answered without an error with is_match = true and the stored contact
\* data, each records its own Swipe row, two in all, and the item ends with
\* status matched.
C9_ConcurrentRightSwipes == []C9_NoConflict /\ [][C9_Step]_vars

\* both of two right swipes that arrived while the item was available have
\* been answered with a match: two rows, and the item is matched
C9_Witness ==
    /\ RightSwipe(out.req) /\ out.req.pre = "available"
    /\ out.resp.code = 200 /\ out.resp.is_match
    /\ Cardinality(RightRows(swipes, ReqId(out.req))) = 2
    /\ StatusOf(items, ReqId(out.req)) = "matched"

C10_Step ==
    /\ (Replied /\ out'.req.ep = "swipe" /\ ~BadDirection(out'.req)
          /\ Truthy(out'.req.body.item_id) /\ out'.resp.code # 500) =>
            /\ out'.resp.code = 200
            /\ \E s \in swipes' :
                  /\ Str(s.swiper_id) = out'.resp.swiper_id
                  /\ s.item_id = ReqId(out'.req)
                  /\ s.direction = out'.req.body.direction.s
                  /\ \A x \in swipes' : x.swiper_id = s.swiper_id => x = s
                  /\ swipes' \ swipes \subseteq {s}
    /\ \A s \in swipes' : s.is_match <=> (s.direction = "right")
    /\ swipes \subseteq swipes'
    /\ Cardinality(swipes' \ swipes) <= 1
====
